---- MODULE Spec2Model ----
(***************************************************************************)
(* Model of get_lenovo_warranty.py: the warranty lookup of one serial      *)
(* number (fetch, extraction of the "End Date" fields, selection of the    *)
(* latest one), the bulk lookup over a file of serial numbers with its     *)
(* overall active/expired counts, and the summary by year.                 *)
(*                                                                         *)
(* Strings are sequences of one-character strings, so that strip(),        *)
(* re.findall(), strptime() and str() are computed character by character. *)
(***************************************************************************)
EXTENDS Integers, Sequences, FiniteSets, TLC

(***************************************************************************)
(* Bounds of the model.                                                    *)
(***************************************************************************)
\* most "End Date" fragments in a response text of a single lookup
MaxOcc == 2
\* most lines in the input file of a bulk lookup
MaxLines == 2

(***************************************************************************)
(* Characters and strings.                                                 *)
(***************************************************************************)
Digits == <<"0", "1", "2", "3", "4", "5", "6", "7", "8", "9">>

IsDigit(c) == \E i \in 1..10 : Digits[i] = c

DigitVal(c) == (CHOOSE i \in 1..10 : Digits[i] = c) - 1

UpperCase == <<"A", "B", "C", "D", "E", "F", "G", "H", "I", "J", "K", "L", "M",
               "N", "O", "P", "Q", "R", "S", "T", "U", "V", "W", "X", "Y", "Z">>

LowerCase == <<"a", "b", "c", "d", "e", "f", "g", "h", "i", "j", "k", "l", "m",
               "n", "o", "p", "q", "r", "s", "t", "u", "v", "w", "x", "y", "z">>

\* re.IGNORECASE compares characters after case folding
Fold(c) == IF \E i \in 1..26 : UpperCase[i] = c
           THEN LowerCase[CHOOSE i \in 1..26 : UpperCase[i] = c]
           ELSE c

\* the characters str.strip() removes
Whitespace == {" ", "\t", "\n", "\r", "\f"}

\* str.strip(): drop leading and trailing whitespace
Strip(s) ==
    LET keep == {i \in 1..Len(s) : s[i] \notin Whitespace}
    IN IF keep = {} THEN <<>>
       ELSE LET lo == CHOOSE i \in keep : \A j \in keep : i <= j
                hi == CHOOSE i \in keep : \A j \in keep : j <= i
            IN SubSeq(s, lo, hi)

\* str.startswith()
StartsWith(s, p) == Len(s) >= Len(p) /\ SubSeq(s, 1, Len(p)) = p

RECURSIVE Concat(_)
\* the concatenation of a sequence of strings
Concat(ss) == IF ss = <<>> THEN <<>> ELSE Head(ss) \o Concat(Tail(ss))

(***************************************************************************)
(* The string literals of the program.                                     *)
(***************************************************************************)
NA == <<"N", "/", "A">>

ERROR == <<"E", "R", "R", "O", "R">>

\* the literal part of the pattern r'End Date:&nbsp;</b>([^<]+)'
Label == <<"E", "n", "d", " ", "D", "a", "t", "e", ":",
           "&", "n", "b", "s", "p", ";", "<", "/", "b", ">">>

(***************************************************************************)
(* re.findall(r'End Date:&nbsp;</b>([^<]+)', html_content, re.IGNORECASE)  *)
(***************************************************************************)
\* the literal part of the pattern matches at position i, ignoring case
LabelAt(text, i) ==
    /\ i + Len(Label) - 1 <= Len(text)
    /\ \A k \in 1..Len(Label) : Fold(text[i + k - 1]) = Fold(Label[k])

\* the end of the greedy group [^<]+ that starts at position j (j - 1 if it
\* matches no character)
GroupEnd(text, j) ==
    LET stops == {k \in j..Len(text) : text[k] = "<"}
    IN IF stops = {} THEN Len(text)
       ELSE (CHOOSE k \in stops : \A l \in stops : k <= l) - 1

RECURSIVE FindAllFrom(_, _)
\* the groups of the non-overlapping matches found scanning from position i
FindAllFrom(text, i) ==
    IF i > Len(text) THEN <<>>
    ELSE IF LabelAt(text, i) /\ GroupEnd(text, i + Len(Label)) >= i + Len(Label)
         THEN LET j == i + Len(Label)
                  e == GroupEnd(text, j)
              IN <<SubSeq(text, j, e)>> \o FindAllFrom(text, e + 1)
         ELSE FindAllFrom(text, i + 1)

FindAll(text) == FindAllFrom(text, 1)

(***************************************************************************)
(* datetime: a naive date and time, to the hour.                           *)
(***************************************************************************)
Datetime(y, m, d, h) == [year |-> y, month |-> m, day |-> d, hour |-> h]

\* datetime.min
DatetimeMin == Datetime(1, 1, 1, 0)

\* Python's None
None == [none |-> TRUE]

\* the order of datetimes, as a number that grows with the date and time
DtNum(dt) == (((dt.year * 12 + (dt.month - 1)) * 31) + (dt.day - 1)) * 24 + dt.hour

\* a >= b on datetimes
DtGeq(a, b) == DtNum(a) >= DtNum(b)

IsLeap(y) == (y % 4 = 0 /\ y % 100 # 0) \/ y % 400 = 0

DaysInMonth(y, m) ==
    IF m = 2 THEN (IF IsLeap(y) THEN 29 ELSE 28)
    ELSE IF m \in {4, 6, 9, 11} THEN 30 ELSE 31

(***************************************************************************)
(* datetime.strptime(date_str, '%Y-%m-%d')                                 *)
(*   %Y  \d\d\d\d                                                          *)
(*   %m  1[0-2]|0[1-9]|[1-9]                                               *)
(*   %d  3[01]|[12]\d|0[1-9]|[1-9]| [1-9]                                  *)
(* The whole string must be consumed and the date must exist.              *)
(***************************************************************************)
\* the field %m as written: the characters between the two dashes
MonthField(s) ==
    IF Len(s) >= 7 /\ s[7] = "-" THEN SubSeq(s, 6, 6)
    ELSE IF Len(s) >= 8 /\ s[8] = "-" THEN SubSeq(s, 6, 7)
    ELSE <<>>

\* the field %d as written: what follows the second dash
DayField(s) == SubSeq(s, 6 + Len(MonthField(s)) + 1, Len(s))

MonthFieldOk(f) ==
    \/ Len(f) = 1 /\ IsDigit(f[1]) /\ f[1] # "0"
    \/ Len(f) = 2 /\ f[1] = "1" /\ f[2] \in {"0", "1", "2"}
    \/ Len(f) = 2 /\ f[1] = "0" /\ IsDigit(f[2]) /\ f[2] # "0"

DayFieldOk(f) ==
    \/ Len(f) = 1 /\ IsDigit(f[1]) /\ f[1] # "0"
    \/ Len(f) = 2 /\ f[1] = "3" /\ f[2] \in {"0", "1"}
    \/ Len(f) = 2 /\ f[1] \in {"1", "2"} /\ IsDigit(f[2])
    \/ Len(f) = 2 /\ f[1] \in {"0", " "} /\ IsDigit(f[2]) /\ f[2] # "0"

RECURSIVE ToInt(_)
\* int() of a field of digits (a leading space counts as nothing)
ToInt(f) ==
    IF f = <<>> THEN 0
    ELSE (IF f[Len(f)] = " " THEN 0 ELSE DigitVal(f[Len(f)]))
         + 10 * ToInt(SubSeq(f, 1, Len(f) - 1))

\* the format matches the string
FormatMatches(s) ==
    /\ Len(s) >= 5
    /\ \A i \in 1..4 : IsDigit(s[i])
    /\ s[5] = "-"
    /\ MonthFieldOk(MonthField(s))
    /\ DayFieldOk(DayField(s))

\* strptime raises ValueError
StrptimeRaises(s) ==
    \/ ~FormatMatches(s)
    \/ ToInt(SubSeq(s, 1, 4)) < 1
    \/ ToInt(DayField(s)) > DaysInMonth(ToInt(SubSeq(s, 1, 4)), ToInt(MonthField(s)))

\* the datetime strptime returns when it does not raise
Strptime(s) ==
    Datetime(ToInt(SubSeq(s, 1, 4)), ToInt(MonthField(s)), ToInt(DayField(s)), 0)

(***************************************************************************)
(* get_lenovo_warranty(serial_number)                                      *)
(***************************************************************************)
\* lines 52-60: one entry of valid_dates for a stripped, kept date_str
Entry(date_str) ==
    IF StrptimeRaises(date_str) THEN <<None, date_str>>
    ELSE <<Strptime(date_str), date_str>>

RECURSIVE ValidDates_nofilter(_)
\* a variant of ValidDates that keeps the empty and the "N/A" fields
ValidDates_nofilter(end_dates) ==
    IF end_dates = <<>> THEN <<>>
    ELSE <<Entry(Strip(Head(end_dates)))>> \o ValidDates_nofilter(Tail(end_dates))

RECURSIVE ValidDates(_)
\* lines 51-60: valid_dates, built from the list end_dates in its order
ValidDates(end_dates) ==
    IF end_dates = <<>> THEN <<>>
    ELSE LET date_str == Strip(Head(end_dates))
         IN (IF date_str # <<>> /\ date_str # NA THEN <<Entry(date_str)>> ELSE <<>>)
            \o ValidDates(Tail(end_dates))

\* line 64: key=lambda x: x[0] if x[0] else datetime.min
SortKey(x) == IF x[1] = None THEN DatetimeMin ELSE x[1]

\* x sorts strictly before y
KeyLess(x, y) == DtNum(SortKey(x)) < DtNum(SortKey(y))

\* x put into the sorted list, after every entry whose key is not greater
InsertSorted(sorted, x) ==
    LET after == {i \in 1..Len(sorted) : KeyLess(x, sorted[i])}
        pos == IF after = {} THEN Len(sorted) + 1
               ELSE CHOOSE i \in after : \A j \in after : i <= j
    IN SubSeq(sorted, 1, pos - 1) \o <<x>> \o SubSeq(sorted, pos, Len(sorted))

RECURSIVE SortFrom(_, _)
SortFrom(sorted, rest) ==
    IF rest = <<>> THEN sorted
    ELSE SortFrom(InsertSorted(sorted, Head(rest)), Tail(rest))

\* line 64: list.sort(key=...), ascending and stable
SortByDate(valid_dates) == SortFrom(<<>>, valid_dates)

\* a variant of LatestDate that takes the first entry of the sorted list
LatestDate_first(valid_dates) ==
    IF valid_dates # <<>>
    THEN LET s == SortByDate(valid_dates) IN s[1][2]
    ELSE NA

\* lines 62-67: latest_date
LatestDate(valid_dates) ==
    IF valid_dates # <<>>
    THEN LET s == SortByDate(valid_dates) IN s[Len(s)][2]
    ELSE NA

\* a fetch that raised a RequestException (connection error, timeout, or
\* raise_for_status() on a non-success status)
FetchFailed == [ok |-> FALSE, text |-> <<>>]

\* a fetch that returned response.text
FetchOk(text) == [ok |-> TRUE, text |-> text]

\* a variant of GetLenovoWarranty that reports a failed fetch as "N/A"
GetLenovoWarranty_na(serial_number, fetch) ==
    [SerialNumber |-> serial_number,
     WarrantyTill |-> IF fetch.ok THEN LatestDate(ValidDates(FindAll(fetch.text)))
                      ELSE NA]

\* lines 42-79: the record returned for a serial number and a fetch outcome
GetLenovoWarranty(serial_number, fetch) ==
    IF fetch.ok
    THEN [SerialNumber |-> serial_number,
          WarrantyTill |-> LatestDate(ValidDates(FindAll(fetch.text)))]
    ELSE [SerialNumber |-> serial_number, WarrantyTill |-> ERROR]

(***************************************************************************)
(* summarize_by_year: helpers                                              *)
(***************************************************************************)
RECURSIVE IntToStr(_)
\* str() of a non-negative int
IntToStr(n) ==
    IF n < 10 THEN <<Digits[n + 1]>>
    ELSE IntToStr(n \div 10) \o <<Digits[(n % 10) + 1]>>

\* a < b on strings of digits, as Python compares str: character by
\* character, a proper prefix first
StrLess(a, b) ==
    \E k \in 1..(Len(b)) :
        /\ \A i \in 1..(k - 1) : i <= Len(a) /\ a[i] = b[i]
        /\ \/ k = Len(a) + 1
           \/ k <= Len(a) /\ DigitVal(a[k]) < DigitVal(b[k])

RECURSIVE Sorted(_)
\* sorted(year_counts.keys())
Sorted(keys) ==
    IF keys = {} THEN <<>>
    ELSE LET m == CHOOSE x \in keys : \A y \in keys \ {x} : StrLess(x, y)
         IN <<m>> \o Sorted(keys \ {m})

\* line 90: the value of a missing key of the defaultdict
ZeroCounts == [Total |-> 0, Active |-> 0, Expired |-> 0]

\* a variant of CountYear that counts an expired warranty in Total only
CountYear_noexpired(yc, end_dt, now) ==
    LET year == IntToStr(end_dt.year)
        old == IF year \in DOMAIN yc THEN yc[year] ELSE ZeroCounts
        new == [Total |-> old.Total + 1,
                Active |-> old.Active + (IF DtGeq(end_dt, now) THEN 1 ELSE 0),
                Expired |-> old.Expired]
    IN [y \in DOMAIN yc \cup {year} |-> IF y = year THEN new ELSE yc[y]]

\* lines 102-107: year_counts after counting a parsed end date
CountYear(yc, end_dt, now) ==
    LET year == IntToStr(end_dt.year)
        old == IF year \in DOMAIN yc THEN yc[year] ELSE ZeroCounts
        new == [Total |-> old.Total + 1,
                Active |-> old.Active + (IF DtGeq(end_dt, now) THEN 1 ELSE 0),
                Expired |-> old.Expired + (IF DtGeq(end_dt, now) THEN 0 ELSE 1)]
    IN [y \in DOMAIN yc \cup {year} |-> IF y = year THEN new ELSE yc[y]]

\* lines 93-100: the row is left out of the year statistics
SkippedByYear(end_str) ==
    end_str = <<>> \/ end_str \in {NA, ERROR} \/ StrptimeRaises(end_str)

\* lines 113-115 and 122-124: the rows of the table, one per year
YearRows(yc) ==
    LET ys == Sorted(DOMAIN yc)
    IN [i \in 1..Len(ys) |-> <<ys[i], yc[ys[i]].Total, yc[ys[i]].Active, yc[ys[i]].Expired>>]

(***************************************************************************)
(* process_bulk_lookup: helpers                                            *)
(***************************************************************************)
\* a variant of SkippedLine that looks for '#' at the start of the raw line
SkippedLine_nostrip(line) ==
    Strip(line) = <<>> \/ StartsWith(line, <<"#">>)

\* line 148: the line is skipped (serial is the stripped line)
SkippedLine(line) ==
    Strip(line) = <<>> \/ StartsWith(Strip(line), <<"#">>)

\* lines 156-164: the warranty end date is counted and is on or after today
CountsActive(warranty_date, now) ==
    /\ warranty_date \notin {NA, ERROR}
    /\ ~StrptimeRaises(warranty_date)
    /\ DtGeq(Strptime(warranty_date), now)

\* lines 156-164: the warranty end date is counted and is before today
CountsExpired(warranty_date, now) ==
    /\ warranty_date \notin {NA, ERROR}
    /\ ~StrptimeRaises(warranty_date)
    /\ ~DtGeq(Strptime(warranty_date), now)

(***************************************************************************)
(* The inputs: serial numbers, file lines, response texts, the clock.      *)
(***************************************************************************)
Str_2026_03_01 == <<"2", "0", "2", "6", "-", "0", "3", "-", "0", "1">>
Str_2025_01_05 == <<"2", "0", "2", "5", "-", "0", "1", "-", "0", "5">>
Str_2025_1_5 == <<"2", "0", "2", "5", "-", "1", "-", "5">>
Str_0001_01_01 == <<"0", "0", "0", "1", "-", "0", "1", "-", "0", "1">>
Str_0999_12_31 == <<"0", "9", "9", "9", "-", "1", "2", "-", "3", "1">>
Str_2025_02_30 == <<"2", "0", "2", "5", "-", "0", "2", "-", "3", "0">>
Str_unknown == <<"u", "n", "k", "n", "o", "w", "n">>
Str_padded == <<" ">> \o Str_2026_03_01 \o <<"\n">>

\* markup that ends a field
Br == <<"<", "b", "r", ">">>

\* one warranty line item of the status page
Field(value) == Label \o value \o Br

\* a line item whose label is written in another case
LowerField(value) ==
    <<"e", "n", "d", " ", "d", "a", "t", "e", ":",
      "&", "N", "B", "S", "P", ";", "<", "/", "B", ">">> \o value \o Br

\* pieces of a response text of a single lookup
Fragments ==
    { Field(Str_2026_03_01), Field(Str_2025_01_05), Field(Str_2025_1_5),
      Field(Str_0001_01_01), Field(Str_2025_02_30), Field(Str_unknown),
      Field(NA), Field(ERROR), Field(<<" ">>), Field(<<>>), Field(Str_padded),
      LowerField(Str_2025_01_05), <<"<", "p", ">", "E", "n", "d", "<", "/", "p", ">">> }

\* the sequences of at most n elements of S
SeqsUpTo(S, n) == UNION {[1..k -> S] : k \in 0..n}

\* the response texts of a single lookup
Texts == {Concat(fs) : fs \in SeqsUpTo(Fragments, MaxOcc)}

\* the outcomes of the fetch of a single lookup
Responses == {FetchFailed} \cup {FetchOk(t) : t \in Texts}

\* the response texts of a bulk lookup: at most one line item each
BulkTexts ==
    { <<"<", "p", ">">>, Field(Str_2026_03_01), Field(Str_2025_01_05),
      Field(Str_0999_12_31), Field(Str_unknown) }

\* the outcomes of a fetch of a bulk lookup
BulkResponses == {FetchFailed} \cup {FetchOk(t) : t \in BulkTexts}

Serial_A1 == <<"A", "1">>
Serial_B2 == <<"B", "2">>

Serials == {Serial_A1, Serial_B2}

\* lines of an input file, as "for line in f" yields them
Lines ==
    { Serial_A1 \o <<"\n">>, <<" ">> \o Serial_B2 \o <<"\n">>,
      <<" ", "\n">>, <<"#", "c", "\n">>, <<" ", "#", "c", "\n">> }

\* the input files
Files == SeqsUpTo(Lines, MaxLines)

\* the instants at which datetime.now() may be read, in order
Instants ==
    << Datetime(2025, 1, 4, 23), Datetime(2025, 1, 5, 12) >>

(***************************************************************************)
(* The state.                                                              *)
(***************************************************************************)
VARIABLES
    pc,                 \* where the program is
    serial_arg,         \* args.serial (single lookup)
    lines,              \* the lines of args.file (bulk lookup)
    do_summary_by_year, \* args.summary_by_year
    summary_output,     \* args.summary_output is given
    clock,              \* the index in Instants of the current time
    idx,                \* the next line of the file to read
    warranty_info,      \* the record of the last lookup
    all_results,        \* process_bulk_lookup: all_results
    active_count,       \* process_bulk_lookup: active_count
    expired_count,      \* process_bulk_lookup: expired_count
    today,              \* process_bulk_lookup: today
    fetches,            \* history: the fetch outcome of each lookup, in order
    lookups,            \* history: how often each line of the file was looked up
    sum_today,          \* summarize_by_year: today
    sum_idx,            \* summarize_by_year: the next row of results
    year_counts,        \* summarize_by_year: year_counts
    printed_rows,       \* the rows of the printed summary table
    csv_rows            \* the rows written to the summary CSV, header first

vars == << pc, serial_arg, lines, do_summary_by_year, summary_output, clock, idx,
           warranty_info, all_results, active_count, expired_count, today,
           fetches, lookups, sum_today, sum_idx, year_counts, printed_rows, csv_rows >>

bulkVars == << all_results, active_count, expired_count, today, lookups, idx >>

summaryVars == << sum_today, sum_idx, year_counts, printed_rows, csv_rows >>

argVars == << serial_arg, lines, do_summary_by_year, summary_output >>

\* datetime.now()
Now == Instants[clock]

\* year_counts with no key
NoYears == [y \in {} |-> ZeroCounts]

\* what holds of the variables of a run before the program has set them
Unset ==
    /\ idx = 1
    /\ warranty_info = None
    /\ all_results = <<>>
    /\ active_count = 0
    /\ expired_count = 0
    /\ today = None
    /\ fetches = <<>>
    /\ sum_today = None
    /\ sum_idx = 1
    /\ year_counts = NoYears
    /\ printed_rows = <<>>
    /\ csv_rows = <<>>

(***************************************************************************)
(* main with a serial number: a single lookup (lines 259-265)              *)
(***************************************************************************)
InitSingle ==
    /\ pc = "single"
    /\ serial_arg \in Serials
    /\ lines = <<>>
    /\ do_summary_by_year = FALSE
    /\ summary_output = FALSE
    /\ clock = 1
    /\ lookups = <<>>
    /\ Unset

SingleLookup ==
    /\ pc = "single"
    /\ \E fetch \in Responses :
        /\ warranty_info' = GetLenovoWarranty(serial_arg, fetch)
        /\ fetches' = Append(fetches, fetch)
    /\ pc' = "done"
    /\ UNCHANGED << argVars, clock, bulkVars, summaryVars >>

NextSingle == SingleLookup

SpecSingle == InitSingle /\ [][NextSingle]_vars

(***************************************************************************)
(* main with -f: process_bulk_lookup (lines 251-258, 127-188)              *)
(***************************************************************************)
Init ==
    /\ pc = "bulk"
    /\ serial_arg = <<>>
    /\ lines \in Files
    /\ do_summary_by_year \in BOOLEAN
    /\ summary_output \in BOOLEAN
    /\ do_summary_by_year \/ ~summary_output
    /\ clock \in 1..Len(Instants)
    /\ lookups = [i \in 1..Len(lines) |-> 0]
    /\ Unset

\* lines 138-143
BulkStart ==
    /\ pc = "bulk"
    /\ all_results' = <<>>
    /\ active_count' = 0
    /\ expired_count' = 0
    /\ today' = Now
    /\ idx' = 1
    /\ pc' = "read"
    /\ UNCHANGED << argVars, clock, warranty_info, fetches, lookups, summaryVars >>

\* lines 144-149: an empty line or a comment
SkipLine ==
    /\ pc = "read"
    /\ idx <= Len(lines)
    /\ SkippedLine(lines[idx])
    /\ idx' = idx + 1
    /\ UNCHANGED << pc, argVars, clock, warranty_info, all_results, active_count,
                    expired_count, today, fetches, lookups, summaryVars >>

\* a variant of Lookup in which a failed fetch ends the run
Lookup_aborts ==
    /\ pc = "read"
    /\ idx <= Len(lines)
    /\ ~SkippedLine(lines[idx])
    /\ \E fetch \in BulkResponses, later \in clock..Len(Instants) :
        LET info == GetLenovoWarranty(Strip(lines[idx]), fetch)
            warranty_date == info.WarrantyTill
        IN /\ warranty_info' = info
           /\ all_results' = Append(all_results, info)
           /\ active_count' = active_count
                  + (IF CountsActive(warranty_date, today) THEN 1 ELSE 0)
           /\ expired_count' = expired_count
                  + (IF CountsExpired(warranty_date, today) THEN 1 ELSE 0)
           /\ fetches' = Append(fetches, fetch)
           /\ clock' = later
           /\ pc' = IF fetch.ok THEN pc ELSE "done"
    /\ lookups' = [lookups EXCEPT ![idx] = @ + 1]
    /\ idx' = idx + 1
    /\ UNCHANGED << argVars, today, summaryVars >>

\* lines 144-164: a serial number is looked up, which takes time, and counted
Lookup ==
    /\ pc = "read"
    /\ idx <= Len(lines)
    /\ ~SkippedLine(lines[idx])
    /\ \E fetch \in BulkResponses, later \in clock..Len(Instants) :
        LET info == GetLenovoWarranty(Strip(lines[idx]), fetch)
            warranty_date == info.WarrantyTill
        IN /\ warranty_info' = info
           /\ all_results' = Append(all_results, info)
           /\ active_count' = active_count
                  + (IF CountsActive(warranty_date, today) THEN 1 ELSE 0)
           /\ expired_count' = expired_count
                  + (IF CountsExpired(warranty_date, today) THEN 1 ELSE 0)
           /\ fetches' = Append(fetches, fetch)
           /\ clock' = later
    /\ lookups' = [lookups EXCEPT ![idx] = @ + 1]
    /\ idx' = idx + 1
    /\ UNCHANGED << pc, argVars, today, summaryVars >>

\* lines 166-188: the file is read; the results are printed, and the summary
\* by year is called if asked for
PrintResults ==
    /\ pc = "read"
    /\ idx > Len(lines)
    /\ pc' = IF do_summary_by_year THEN "summarize_by_year" ELSE "done"
    /\ UNCHANGED << argVars, clock, warranty_info, fetches, bulkVars, summaryVars >>

\* lines 89-90
SummarizeStart ==
    /\ pc = "summarize_by_year"
    /\ sum_today' = Now
    /\ year_counts' = NoYears
    /\ sum_idx' = 1
    /\ pc' = "rows"
    /\ UNCHANGED << argVars, clock, warranty_info, fetches, bulkVars,
                    printed_rows, csv_rows >>

\* lines 92-107: one row of results
SummarizeRow ==
    /\ pc = "rows"
    /\ sum_idx <= Len(all_results)
    /\ LET end_str == all_results[sum_idx].WarrantyTill
       IN year_counts' = IF SkippedByYear(end_str) THEN year_counts
                         ELSE CountYear(year_counts, Strptime(end_str), sum_today)
    /\ sum_idx' = sum_idx + 1
    /\ UNCHANGED << pc, argVars, clock, warranty_info, fetches, bulkVars,
                    sum_today, printed_rows, csv_rows >>

\* lines 109-125: the table is printed and, if asked for, written as CSV
SummarizePrint ==
    /\ pc = "rows"
    /\ sum_idx > Len(all_results)
    /\ printed_rows' = YearRows(year_counts)
    /\ csv_rows' = IF summary_output
                   THEN <<(<<"Year", "Total", "Active", "Expired">>)>> \o YearRows(year_counts)
                   ELSE <<>>
    /\ pc' = "done"
    /\ UNCHANGED << argVars, clock, warranty_info, fetches, bulkVars,
                    sum_today, sum_idx, year_counts >>

Next ==
    \/ BulkStart
    \/ SkipLine
    \/ Lookup
    \/ PrintResults
    \/ SummarizeStart
    \/ SummarizeRow
    \/ SummarizePrint

Spec == Init /\ [][Next]_vars

(***************************************************************************)
(* Vocabulary of the properties.                                           *)
(***************************************************************************)
\* a date formatted YYYY-MM-DD
FormatIso(dt) ==
    LET y == IntToStr(dt.year)
        m == IntToStr(dt.month)
        d == IntToStr(dt.day)
        z(str, w) == [i \in 1..(w - Len(str)) |-> "0"] \o str
    IN z(y, 4) \o <<"-">> \o z(m, 2) \o <<"-">> \o z(d, 2)

\* the string is a date that exists, written YYYY-MM-DD
IsIsoDate(str) ==
    /\ Len(str) = 10
    /\ \A i \in {1, 2, 3, 4, 6, 7, 9, 10} : IsDigit(str[i])
    /\ str[5] = "-" /\ str[8] = "-"
    /\ ~StrptimeRaises(str)

\* the string parses as a date
Parses(str) == ~StrptimeRaises(str)

\* the pattern has a match that starts at position i of the text
OccursAt(text, i) ==
    /\ LabelAt(text, i)
    /\ i + Len(Label) <= Len(text)
    /\ text[i + Len(Label)] # "<"

\* the fields extracted from the text, trimmed, in the order of the text
Trimmed(text) == LET f == FindAll(text) IN [i \in 1..Len(f) |-> Strip(f[i])]

\* the positions of the trimmed fields that are candidates: neither empty
\* nor "N/A"
Kept(text) == LET T == Trimmed(text) IN {i \in 1..Len(T) : T[i] \notin {<<>>, NA}}

\* the single lookup has returned
Returned == pc = "done" /\ Len(fetches) = 1

\* the fetch succeeded and returned a text
Fetched == Returned /\ fetches[1].ok

Result == warranty_info.WarrantyTill

(***************************************************************************)
(* C1. All candidates are valid dates: the original statement.  On a       *)
(* successful fetch whose text has at least one field, all of them (once   *)
(* trimmed) valid dates, the returned WarrantyTill is the maximum date     *)
(* among them, formatted YYYY-MM-DD.                                       *)
(***************************************************************************)
\* T is a list of at least one string, all of them valid dates
AllValid(T) == Len(T) >= 1 /\ \A i \in 1..Len(T) : Parses(T[i])

\* the date of T[i] is the maximum of the dates of T
IsMaxAt(T, i) ==
    \A j \in 1..Len(T) : DtNum(Strptime(T[j])) <= DtNum(Strptime(T[i]))

C1_Original ==
    Fetched =>
        LET T == Trimmed(fetches[1].text)
        IN AllValid(T) =>
            \E i \in 1..Len(T) : IsMaxAt(T, i) /\ Result = FormatIso(Strptime(T[i]))

(***************************************************************************)
(* C1, amended.  On a successful fetch whose text has at least one field,  *)
(* all of them (once trimmed) valid dates, the returned WarrantyTill is    *)
(* the trimmed text, as written in the response, of the last field that    *)
(* holds the maximum date; it is that date formatted YYYY-MM-DD exactly    *)
(* when the field is written zero-padded.                                  *)
(***************************************************************************)
C1_LatestAsWritten ==
    Fetched =>
        LET T == Trimmed(fetches[1].text)
        IN AllValid(T) =>
            \E i \in 1..Len(T) :
                /\ IsMaxAt(T, i)
                /\ \A j \in (i + 1)..Len(T) : ~IsMaxAt(T, j)
                /\ Result = T[i]
                /\ (Result = FormatIso(Strptime(T[i]))) <=> IsIsoDate(T[i])

\* two valid dates, the later one first in the text, and it is returned
C1_Witness ==
    /\ Fetched
    /\ Trimmed(fetches[1].text) = <<Str_2026_03_01, Str_2025_01_05>>
    /\ Result = Str_2026_03_01

(***************************************************************************)
(* C2. An unparsable candidate never wins unless no candidate parses: on   *)
(* a successful fetch whose candidates include one that parses as a date,  *)
(* the returned WarrantyTill is one of the candidates that parse.          *)
(***************************************************************************)
C2_UnparsableNeverWins ==
    Fetched =>
        LET T == Trimmed(fetches[1].text)
            K == Kept(fetches[1].text)
        IN (\E i \in K : Parses(T[i])) =>
            \E i \in K : Parses(T[i]) /\ Result = T[i]

(***************************************************************************)
(* C3. The original statement: every returned WarrantyTill is a date       *)
(* written YYYY-MM-DD, "N/A" or "ERROR", and "ERROR" only when the fetch   *)
(* failed.                                                                 *)
(***************************************************************************)
C3_Original ==
    Returned =>
        /\ IsIsoDate(Result) \/ Result = NA \/ Result = ERROR
        /\ Result = ERROR => ~fetches[1].ok

(***************************************************************************)
(* C3, amended.  The returned record carries the serial number asked for.  *)
(* Its WarrantyTill is "ERROR" when the fetch failed; on a successful      *)
(* fetch it is "N/A" when no candidate is left, and otherwise the trimmed  *)
(* text of one of the candidates: a date written YYYY-MM-DD when every     *)
(* candidate is one, but possibly any other text of the page that is       *)
(* neither empty nor "N/A", the text "ERROR" included.                     *)
(***************************************************************************)
C3_ResultDomain ==
    Returned =>
        /\ warranty_info.SerialNumber = serial_arg
        /\ ~fetches[1].ok => Result = ERROR
        /\ fetches[1].ok =>
            LET T == Trimmed(fetches[1].text)
                K == Kept(fetches[1].text)
            IN /\ IF K = {} THEN Result = NA ELSE \E i \in K : Result = T[i]
               /\ (K # {} /\ \A i \in K : IsIsoDate(T[i])) => IsIsoDate(Result)

\* a successful fetch returns the text "ERROR" of the page
C3_Witness ==
    /\ Fetched
    /\ Result = ERROR
    /\ ~IsIsoDate(Result)

(***************************************************************************)
(* C10. On a successful fetch, the returned WarrantyTill is "N/A" whenever *)
(* the pattern occurs nowhere in the text, and whenever every extracted    *)
(* field is, once trimmed, empty or "N/A"; such a field is dropped, so     *)
(* that when another field is left the value returned is one of those      *)
(* left.                                                                   *)
(***************************************************************************)
C10_EmptyIsNA ==
    Fetched =>
        LET text == fetches[1].text
            T == Trimmed(text)
        IN /\ (\A i \in 1..Len(text) : ~OccursAt(text, i)) => Result = NA
           /\ (\A i \in 1..Len(T) : T[i] = <<>> \/ T[i] = NA) => Result = NA
           /\ (\E i \in 1..Len(T) : T[i] # <<>> /\ T[i] # NA) =>
                \E i \in 1..Len(T) : T[i] # <<>> /\ T[i] # NA /\ Result = T[i]

\* every field of the text is blank or "N/A", there are two, and "N/A" is returned
C10_Witness ==
    /\ Fetched
    /\ Len(Trimmed(fetches[1].text)) = 2
    /\ \E i \in 1..2 : Trimmed(fetches[1].text)[i] = <<>>
    /\ \E i \in 1..2 : Trimmed(fetches[1].text)[i] = NA
    /\ Result = NA

(***************************************************************************)
(* Vocabulary of the properties of the bulk lookup.                        *)
(***************************************************************************)
\* the lines of the file that hold a serial number: stripped of surrounding
\* whitespace they are not empty and do not begin with '#'
SerialLines ==
    {k \in 1..Len(lines) : Strip(lines[k]) # <<>> /\ Strip(lines[k])[1] # "#"}

\* the lines of the file that are not blank and do not themselves begin
\* with '#'
UncommentedLines ==
    {k \in 1..Len(lines) : Strip(lines[k]) # <<>> /\ lines[k][1] # "#"}

\* the i-th element of a set of line numbers
Nth(S, i) == CHOOSE k \in S : Cardinality({j \in S : j < k}) = i - 1

\* the loop over the file has ended
LoopDone == pc \in {"summarize_by_year", "rows", "done"}

\* the WarrantyTill of record i
Till(i) == all_results[i].WarrantyTill

\* the records whose WarrantyTill parses as a date
Dated == {i \in 1..Len(all_results) : Parses(Till(i))}

\* the end date of record i is on the day of the instant now
SameDay(i, now) ==
    LET d == Strptime(Till(i))
    IN d.year = now.year /\ d.month = now.month /\ d.day = now.day

RECURSIVE SumOf(_, _, _)
\* the sum of a count over the years of S
SumOf(yc, S, field) ==
    IF S = {} THEN 0
    ELSE LET y == CHOOSE x \in S : TRUE
         IN yc[y][field] + SumOf(yc, S \ {y}, field)

(***************************************************************************)
(* C4. A failed fetch yields the record of the serial number with          *)
(* WarrantyTill "ERROR" and does not end the run: at every moment the      *)
(* lines read so far that hold a serial number have been looked up exactly *)
(* once and no other line has, and the loop ends only when the whole file  *)
(* has been read, so that every later serial number is still looked up     *)
(* exactly once, whichever lookups failed.                                 *)
(***************************************************************************)
C4_FailureIsContained ==
    LET S == SerialLines
    IN /\ \A i \in 1..Len(all_results) :
            ~fetches[i].ok =>
               /\ i <= Cardinality(S)
               /\ all_results[i] = [SerialNumber |-> Strip(lines[Nth(S, i)]),
                                    WarrantyTill |-> ERROR]
       /\ \A k \in 1..Len(lines) :
            lookups[k] = IF k \in S /\ k < idx THEN 1 ELSE 0
       /\ LoopDone => idx = Len(lines) + 1

\* the first of two lookups failed and the second was still made
C4_Witness ==
    /\ pc = "done"
    /\ Len(fetches) = 2
    /\ ~fetches[1].ok
    /\ fetches[2].ok
    /\ all_results[1].WarrantyTill = ERROR
    /\ Parses(all_results[2].WarrantyTill)

(***************************************************************************)
(* C5. The original statement: the result list has one record per line     *)
(* that is not blank and does not begin with '#', in the order of the      *)
(* file, the i-th record carrying the serial number of the i-th such line. *)
(***************************************************************************)
C5_Original ==
    LoopDone =>
        LET U == UncommentedLines
        IN /\ Len(all_results) = Cardinality(U)
           /\ \A i \in 1..Len(all_results) :
                /\ i <= Cardinality(U)
                /\ all_results[i].SerialNumber = Strip(lines[Nth(U, i)])

(***************************************************************************)
(* C5, amended.  The result list has one record per line that, once        *)
(* stripped of surrounding whitespace, is neither empty nor begins with    *)
(* '#' (an indented comment is skipped as well); the lines are processed   *)
(* in the order of the file, the i-th record carrying the stripped text of *)
(* the i-th such line, whichever lookups fail.                             *)
(***************************************************************************)
C5_FileOrder ==
    pc # "bulk" =>
        LET S == SerialLines
        IN /\ Len(all_results) = Cardinality({k \in S : k < idx})
           /\ Len(fetches) = Len(all_results)
           /\ \A i \in 1..Len(all_results) :
                all_results[i].SerialNumber = Strip(lines[Nth(S, i)])
           /\ LoopDone => Len(all_results) = Cardinality(S)

\* a file with an indented comment and a serial number whose lookup failed
C5_Witness ==
    /\ LoopDone
    /\ \E k \in 1..Len(lines) : lines[k] = <<" ", "#", "c", "\n">>
    /\ Len(all_results) = 1
    /\ ~fetches[1].ok

(***************************************************************************)
(* C6. The overall counts: active counts the records whose end date parses *)
(* and is on or after now, expired those whose end date parses and is      *)
(* before now, so that together they count the records with a date that    *)
(* parses; and a record whose end date is the current day counts as        *)
(* active.                                                                 *)
(***************************************************************************)
C6_OverallCounts ==
    LoopDone =>
        /\ active_count = Cardinality({i \in Dated : DtGeq(Strptime(Till(i)), today)})
        /\ expired_count = Cardinality({i \in Dated : ~DtGeq(Strptime(Till(i)), today)})
        /\ active_count + expired_count = Cardinality(Dated)
        /\ active_count >= Cardinality({i \in Dated : SameDay(i, today)})

(***************************************************************************)
(* C7. In a run with --summary-by-year whose records have no date that     *)
(* fails to parse, the tallies of the years add up to the overall counts,  *)
(* however much time passes during the lookups.                            *)
(***************************************************************************)
C7_TalliesAgree ==
    ( /\ pc = "done"
      /\ do_summary_by_year
      /\ \A i \in 1..Len(all_results) : Till(i) \in {NA, ERROR} \/ Parses(Till(i)) ) =>
        /\ SumOf(year_counts, DOMAIN year_counts, "Active") = active_count
        /\ SumOf(year_counts, DOMAIN year_counts, "Expired") = expired_count

(***************************************************************************)
(* C8. After any number of rows of summarize_by_year, every year has       *)
(* Total = Active + Expired, and the rows counted so far are exactly those *)
(* whose WarrantyTill parses as a date, each in the one bucket of the year *)
(* of its end date: a year's Total is the number of such rows of that      *)
(* year, and no other row ("N/A", "ERROR", unparsable) makes a bucket or   *)
(* changes a count.                                                        *)
(***************************************************************************)
C8_Buckets ==
    pc \in {"rows", "done"} =>
        LET counted == {i \in 1..(sum_idx - 1) : Parses(Till(i))}
            years == DOMAIN year_counts
        IN /\ \A y \in years :
                year_counts[y].Total = year_counts[y].Active + year_counts[y].Expired
           /\ \A y \in years :
                /\ year_counts[y].Total >= 1
                /\ year_counts[y].Total =
                     Cardinality({i \in counted : Strptime(Till(i)).year = ToInt(y)})
           /\ \A i \in counted :
                Cardinality({y \in years : ToInt(y) = Strptime(Till(i)).year}) = 1

\* two rows done, one of them "ERROR", the other in the bucket of its year
C8_Witness ==
    /\ pc = "rows"
    /\ sum_idx = 3
    /\ \E i \in 1..2 : Till(i) = ERROR
    /\ \E i \in 1..2 : Parses(Till(i))
    /\ Cardinality(DOMAIN year_counts) = 1
    /\ \A y \in DOMAIN year_counts : year_counts[y].Total = 1

(***************************************************************************)
(* C9. The rows of the summary, printed and written as CSV alike, are in   *)
(* ascending order of the year, for all record dates that parse, each row  *)
(* keyed by the year of the date written as a string.                      *)
(***************************************************************************)
C9_AscendingYears ==
    (pc = "done" /\ do_summary_by_year) =>
        /\ \A i, j \in 1..Len(printed_rows) :
             i < j => ToInt(printed_rows[i][1]) < ToInt(printed_rows[j][1])
        /\ {printed_rows[i][1] : i \in 1..Len(printed_rows)}
             = {IntToStr(Strptime(Till(i)).year) : i \in Dated}
        /\ summary_output => Tail(csv_rows) = printed_rows

====
